---- MODULE Spec2Model ----
(***************************************************************************)
(* ConcurrentHashMap<K, V, Hash> of src/concurrent_hash_map.h: a striped   *)
(* hash table.  table_ is a vector of chains, mutex_ a fixed vector of     *)
(* locks (stripe m guards the buckets b with b % mutex_.size() = m),       *)
(* size_ and buckets_ are atomics.  Each public method is split into the   *)
(* steps between which another thread can run: a lock acquisition, the     *)
(* work done under the lock, every access to an atomic, a lock release.    *)
(***************************************************************************)
EXTENDS Integers, Sequences, FiniteSets, TLC

(* ---- program constants ---- *)
kUndefinedSize == -1
kDefaultConcurrencyLevel == 8
kLoadFactor == 3
kMinThreads == 8

(* ---- bounds of the model ---- *)
NumThreads == 2
MaxOps == 2
FreshKeys == 2
MaxValue == 2
MaxExpected == 25
MaxThreadHint == 9

Threads == 1..NumThreads
Values == 1..MaxValue

\* The largest number of entries the default table holds without growing.
PrefillFull == kLoadFactor * kDefaultConcurrencyLevel
\* Keys the main thread inserts before the workers start.
PrefillKeys(n) == 1..n
\* Keys the workers use: one that the prefill also inserts, the others fresh.
Keys == {1} \cup ((PrefillFull + 1)..(PrefillFull + FreshKeys))
AllKeys == 1..(PrefillFull + FreshKeys)

NoVal == 0
NoThread == 0

VARIABLES
    table_,        \* bucket index -> chain (sequence of <<key, value>>)
    mutex_,        \* stripe index -> owning thread, NoThread when unlocked
    size_,         \* std::atomic<size_t>
    buckets_,      \* std::atomic<size_t>
    phase,         \* "ctor" after construction, "run" once the workers run
    pc,            \* per thread: the step it is about to take
    op,            \* per thread: the method it is in
    key, value,    \* per thread: the arguments of the call
    i,             \* per thread: the loop index over mutex_ / table_
    size_copy,     \* per thread: Insert's local
    buckets_copy,  \* per thread: Insert's local
    ret,           \* per thread: the result computed under the lock
    opsLeft,       \* per thread: calls still to make
    ref,           \* reference map: key -> value, NoVal when absent
    expect,        \* per thread: what the reference map answers to the call
    hist,          \* per worker key: what has been called and returned
    chk,           \* per thread: its Find runs after an Erase of the key
    nprefill,      \* how many keys the main thread inserted
    ctor_args      \* the constructor's arguments: expected_size, threads

vars == <<table_, mutex_, size_, buckets_, phase, pc, op, key, value, i,
          size_copy, buckets_copy, ret, opsLeft, ref, expect, hist, chk,
          nprefill, ctor_args>>

shared == <<table_, mutex_, size_, buckets_>>
args == <<op, key, value>>
copies == <<size_copy, buckets_copy>>
ghost == <<ref, expect, hist, chk>>

(* ---- pure helpers ---- *)

Max(a, b) == IF a >= b THEN a ELSE b

\* hasher_(key): std::hash of an integral key is the key itself.
Hash(k) == k

\* Faulty variant: size / buckets without rounding up.
BreachFloor(size, buckets) == (size \div buckets) > kLoadFactor

\* (size + buckets - 1) / buckets > kLoadFactor, on unsigned operands.
Breach(size, buckets) == ((size + buckets - 1) \div buckets) > kLoadFactor

\* The smallest multiple of m that is >= n, as lines 19-23 and 58-62 compute it.
RoundUp(n, m) == IF n % m = 0 THEN n ELSE n + m - (n % m)

EmptyTable(n) == [b \in 0..(n - 1) |-> <<>>]

\* The position of key k in chain c, Len(c) + 1 when it is not there.
RECURSIVE Position(_, _, _)
Position(c, k, p) ==
    IF p > Len(c) THEN p
    ELSE IF c[p][1] = k THEN p
    ELSE Position(c, k, p + 1)

\* Faulty variant: erase(begin()) instead of erase(begin() + el_idx).
RemoveFirst(c, p) == SubSeq(c, 2, Len(c))

RemoveAt(c, p) == SubSeq(c, 1, p - 1) \o SubSeq(c, p + 1, Len(c))

\* Faulty variant: the scan starts at the second element.
ScanChainSkipFirst(c, k) ==
    LET p == Position(c, k, 2)
    IN IF p > Len(c) THEN <<FALSE, NoVal>> ELSE <<TRUE, c[p][2]>>

\* The chain scan of Find: <<found, value>>.
ScanChain(c, k) ==
    LET p == Position(c, k, 1)
    IN IF p > Len(c) THEN <<FALSE, NoVal>> ELSE <<TRUE, c[p][2]>>

\* All entries of the table in the order Rehash's two loops visit them.
RECURSIVE Flatten(_, _, _)
Flatten(tbl, b, n) ==
    IF b >= n THEN <<>> ELSE tbl[b] \o Flatten(tbl, b + 1, n)

\* Faulty variant: hasher_(el.second) instead of hasher_(el.first).
InBucketBySecond(e, b, cnt) == Hash(e[2]) % cnt = b

InBucket(e, b, cnt) == Hash(e[1]) % cnt = b

\* Faulty variant: the outer loop stops one bucket early.
RedistributeShort(tbl, old_cnt, new_bucket_cnt) ==
    LET all == Flatten(tbl, 0, old_cnt - 1)
    IN [b \in 0..(new_bucket_cnt - 1) |->
            SelectSeq(all, LAMBDA e: Hash(e[1]) % new_bucket_cnt = b)]

\* Faulty variant: line 27 takes the hash modulo the old bucket count.
RedistributeOldCount(tbl, old_cnt, new_bucket_cnt) ==
    LET all == Flatten(tbl, 0, old_cnt)
    IN [b \in 0..(new_bucket_cnt - 1) |->
            SelectSeq(all, LAMBDA e: InBucket(e, b, old_cnt))]

\* temp after the loops of lines 24-31.
Redistribute(tbl, old_cnt, new_bucket_cnt) ==
    LET all == Flatten(tbl, 0, old_cnt)
    IN [b \in 0..(new_bucket_cnt - 1) |->
            SelectSeq(all, LAMBDA e: InBucket(e, b, new_bucket_cnt))]

\* Faulty variant: new_bucket_cnt = size_, not rounded up to the stripes.
NewBucketCntExact(size, nmutex) == size

NewBucketCnt(size, nmutex) == RoundUp(size, nmutex)

\* Faulty variant: no re-validation once the stripes are held.
RehashAlways(size, buckets) == TRUE

RehashNeeded(size, buckets) == Breach(size, buckets)

\* The largest value of the int parameter expected_size.
IntMax == 2147483647

\* Line 57 adds kLoadFactor - 1 to the int expected_size: past IntMax the
\* signed sum overflows, which is undefined behaviour.
IntOverflows(expected_size) == expected_size > IntMax - (kLoadFactor - 1)

\* Faulty variant: line 57 divides without rounding up.
ConstructFloor(expected_size, expected_threads_count) ==
    LET threads_cnt == Max(kMinThreads, expected_threads_count)
        es == expected_size \div kLoadFactor
    IN IF expected_size = kUndefinedSize
       THEN <<threads_cnt, threads_cnt>>
       ELSE <<threads_cnt, RoundUp(es, threads_cnt)>>

\* The constructor: <<mutex_.size(), table_.size()>>, for expected_size
\* kUndefinedSize or >= 0 without overflow at line 57 (a negative hint
\* other than kUndefinedSize turns into a huge size_t at line 58 and is
\* left out).
Construct(expected_size, expected_threads_count) ==
    LET threads_cnt == Max(kMinThreads, expected_threads_count)
        es == (expected_size + kLoadFactor - 1) \div kLoadFactor
    IN IF expected_size = kUndefinedSize
       THEN <<threads_cnt, threads_cnt>>
       ELSE <<threads_cnt, RoundUp(es, threads_cnt)>>

NumMutex == Cardinality(DOMAIN mutex_)
TableLen == Cardinality(DOMAIN table_)

\* A whole Insert run by one thread with no other thread running.
SeqInsert(s, k, v) ==
    LET idx == Hash(k) % s.buckets
        found == ScanChain(s.table[idx], k)[1]
        t1 == [s.table EXCEPT ![idx] = Append(@, <<k, v>>)]
        n1 == s.size + 1
    IN IF found THEN s
       ELSE IF Breach(n1, s.buckets) /\ RehashNeeded(n1, s.buckets)
            THEN LET nb == NewBucketCnt(n1, s.nmutex)
                 IN [s EXCEPT !.table = Redistribute(t1, s.buckets, nb),
                              !.size = n1, !.buckets = nb]
            ELSE [s EXCEPT !.table = t1, !.size = n1]

(* ---- results ---- *)

NoRet == [ok |-> FALSE, val |-> NoVal, thrown |-> FALSE]
RetBool(b) == [ok |-> b, val |-> NoVal, thrown |-> FALSE]
RetFind(r) == [ok |-> r[1], val |-> r[2], thrown |-> FALSE]
RetAt(r) == [ok |-> r[1], val |-> r[2], thrown |-> ~r[1]]

NoHist == [calls |-> 0, done |-> 0, oks |-> 0, first |-> NoVal,
           rm |-> FALSE, erased |-> FALSE]

(* ---- construction ---- *)

\* The state the constructor leaves. When line 57 overflows, the behaviour
\* from there on is undefined: the usual build wraps the sum to a negative
\* int, which line 58 turns into a size_t near 2^64, and resize throws out
\* of the constructor; no outcome is promised. Such a state has phase "ub",
\* holds the stripes already built at line 52, and nothing runs from it.
InitWith(expected_size, expected_threads_count, calls) ==
    LET ub == IntOverflows(expected_size)
        c == IF ub
             THEN <<Max(kMinThreads, expected_threads_count), 0>>
             ELSE Construct(expected_size, expected_threads_count)
    IN /\ mutex_ = [m \in 0..(c[1] - 1) |-> NoThread]
       /\ table_ = EmptyTable(c[2])
       /\ size_ = 0
       /\ buckets_ = c[2]
       /\ phase = IF ub THEN "ub" ELSE "ctor"
       /\ ctor_args = <<expected_size, expected_threads_count>>
       /\ pc = [t \in Threads |-> "idle"]
       /\ op = [t \in Threads |-> "none"]
       /\ key = [t \in Threads |-> 0]
       /\ value = [t \in Threads |-> NoVal]
       /\ i = [t \in Threads |-> 0]
       /\ size_copy = [t \in Threads |-> 0]
       /\ buckets_copy = [t \in Threads |-> 0]
       /\ ret = [t \in Threads |-> NoRet]
       /\ opsLeft = calls
       /\ ref = [k \in AllKeys |-> NoVal]
       /\ expect = [t \in Threads |-> NoRet]
       /\ hist = [k \in Keys |-> NoHist]
       /\ chk = [t \in Threads |-> FALSE]
       /\ nprefill = 0

\* ConcurrentHashMap(): kUndefinedSize, kDefaultConcurrencyLevel.
Init ==
    InitWith(kUndefinedSize, kDefaultConcurrencyLevel,
             [t \in Threads |-> MaxOps])

\* Before the workers start, the main thread inserts the keys 1, 2, ... one
\* after the other, each with value 1.
MainInsert ==
    /\ phase = "ctor"
    /\ nprefill < PrefillFull
    /\ buckets_ > 0
    /\ LET k == nprefill + 1
           s == SeqInsert([table |-> table_, size |-> size_,
                           buckets |-> buckets_, nmutex |-> NumMutex], k, 1)
       IN /\ table_' = s.table
          /\ size_' = s.size
          /\ buckets_' = s.buckets
          /\ ref' = [ref EXCEPT ![k] = 1]
          /\ hist' = IF k \in Keys
                     THEN [hist EXCEPT ![k] =
                              [NoHist EXCEPT !.calls = 1, !.done = 1,
                                             !.oks = 1, !.first = 1]]
                     ELSE hist
          /\ nprefill' = k
    /\ UNCHANGED <<mutex_, phase, pc, args, i, copies, ret, opsLeft, expect,
                   chk, ctor_args>>

\* The workers start on an empty table or on one as full as it gets
\* without growing.
PrefillChoices == {0, PrefillFull}

Spawn ==
    /\ phase = "ctor"
    /\ nprefill \in PrefillChoices
    /\ phase' = "run"
    /\ UNCHANGED <<shared, pc, args, i, copies, ret, opsLeft, ghost, nprefill,
                   ctor_args>>

(* ---- steps shared by the methods ---- *)

\* A call: the arguments, the first step, one call less to make.
Enter(t, o, k, v, first) ==
    /\ phase = "run"
    /\ pc[t] = "idle"
    /\ opsLeft[t] > 0
    /\ op' = [op EXCEPT ![t] = o]
    /\ key' = [key EXCEPT ![t] = k]
    /\ value' = [value EXCEPT ![t] = v]
    /\ pc' = [pc EXCEPT ![t] = first]
    /\ opsLeft' = [opsLeft EXCEPT ![t] = @ - 1]
    /\ i' = [i EXCEPT ![t] = 0]

\* The return: the locals die.
Leave(t) ==
    /\ pc' = [pc EXCEPT ![t] = "idle"]
    /\ op' = [op EXCEPT ![t] = "none"]
    /\ key' = [key EXCEPT ![t] = 0]
    /\ value' = [value EXCEPT ![t] = NoVal]
    /\ i' = [i EXCEPT ![t] = 0]
    /\ size_copy' = [size_copy EXCEPT ![t] = 0]
    /\ buckets_copy' = [buckets_copy EXCEPT ![t] = 0]
    /\ ret' = [ret EXCEPT ![t] = NoRet]
    /\ expect' = [expect EXCEPT ![t] = NoRet]
    /\ chk' = [chk EXCEPT ![t] = FALSE]

\* size_t m_idx = hash % mutex_.size()
MIdx(k) == Hash(k) % NumMutex

\* Faulty variant: hash % mutex_.size() instead of hash % buckets_.
IdxByMutex(k) == Hash(k) % NumMutex

\* size_t idx = hash % buckets_
Idx(k) == Hash(k) % buckets_

\* std::lock_guard lg(mutex_[m_idx]): blocks while the stripe is held.
LockGuard(t, at, next) ==
    /\ pc[t] = at
    /\ mutex_[MIdx(key[t])] = NoThread
    /\ mutex_' = [mutex_ EXCEPT ![MIdx(key[t])] = t]
    /\ pc' = [pc EXCEPT ![t] = next]

\* One turn of `for (auto& m : mutex_) m.lock();`
LockNext(t, at, next) ==
    /\ pc[t] = at
    /\ mutex_[i[t]] = NoThread
    /\ mutex_' = [mutex_ EXCEPT ![i[t]] = t]
    /\ IF i[t] + 1 = NumMutex
       THEN /\ pc' = [pc EXCEPT ![t] = next]
            /\ i' = [i EXCEPT ![t] = 0]
       ELSE /\ pc' = pc
            /\ i' = [i EXCEPT ![t] = @ + 1]

\* The reference map's answers.
RefInsert(k) == RetBool(ref[k] = NoVal)
RefErase(k) == RetBool(ref[k] # NoVal)
RefFind(k) == RetFind(<<ref[k] # NoVal, ref[k]>>)
RefAt(k) == RetAt(<<ref[k] # NoVal, ref[k]>>)

(* ---- Insert ---- *)

InsertCall(t, k, v) ==
    /\ Enter(t, "Insert", k, v, "ins_lock")
    /\ hist' = [hist EXCEPT ![k].calls = @ + 1]
    /\ UNCHANGED <<shared, phase, copies, ret, ref, expect, chk, nprefill,
                   ctor_args>>

InsertLock(t) ==
    /\ LockGuard(t, "ins_lock", "ins_cs")
    /\ hist' = [hist EXCEPT ![key[t]].first =
                    IF @ = NoVal THEN value[t] ELSE @]
    /\ UNCHANGED <<table_, size_, buckets_, phase, args, i, copies, ret,
                   opsLeft, ref, expect, chk, nprefill, ctor_args>>

\* Lines 77-83: the scan, and the push_back when the key is not there.
\* hash % buckets_ with buckets_ = 0 is undefined: the thread is lost.
InsertScan(t) ==
    /\ pc[t] = "ins_cs"
    /\ IF buckets_ = 0
       THEN /\ pc' = [pc EXCEPT ![t] = "ub"]
            /\ UNCHANGED <<table_, ret, ref, expect, hist>>
       ELSE LET idx == Idx(key[t])
                found == ScanChain(table_[idx], key[t])[1]
            IN /\ expect' = [expect EXCEPT ![t] = RefInsert(key[t])]
               /\ ret' = [ret EXCEPT ![t] = RetBool(~found)]
               /\ IF found
                  THEN /\ pc' = [pc EXCEPT ![t] = "ins_ret_false"]
                       /\ UNCHANGED <<table_, ref, hist>>
                  ELSE /\ table_' = [table_ EXCEPT ![idx] =
                                        Append(@, <<key[t], value[t]>>)]
                       /\ pc' = [pc EXCEPT ![t] = "ins_inc"]
                       /\ ref' = [ref EXCEPT ![key[t]] =
                                      IF @ = NoVal THEN value[t] ELSE @]
                       /\ hist' = [hist EXCEPT ![key[t]].erased = FALSE]
    /\ UNCHANGED <<mutex_, size_, buckets_, phase, args, i, copies, opsLeft,
                   chk, nprefill, ctor_args>>

\* Line 80: return false; the guard releases the stripe.
InsertReturnFalse(t) ==
    /\ pc[t] = "ins_ret_false"
    /\ mutex_' = [mutex_ EXCEPT ![MIdx(key[t])] = NoThread]
    /\ hist' = [hist EXCEPT ![key[t]].done = @ + 1]
    /\ Leave(t)
    /\ UNCHANGED <<table_, size_, buckets_, phase, opsLeft, ref, nprefill,
                   ctor_args>>

\* Line 84: size_++
InsertInc(t) ==
    /\ pc[t] = "ins_inc"
    /\ size_' = size_ + 1
    /\ pc' = [pc EXCEPT ![t] = "ins_unlock"]
    /\ UNCHANGED <<table_, mutex_, buckets_, phase, args, i, copies, ret,
                   opsLeft, ghost, nprefill, ctor_args>>

\* Line 85: the guard's scope ends.
\* Faulty variant: the stripe stays locked past the end of the scope.
InsertUnlockKept(t) ==
    /\ pc[t] = "ins_unlock"
    /\ pc' = [pc EXCEPT ![t] = "ins_rd_size"]
    /\ UNCHANGED <<table_, mutex_, size_, buckets_, phase, args, i, copies,
                   ret, opsLeft, ghost, nprefill, ctor_args>>

InsertUnlock(t) ==
    /\ pc[t] = "ins_unlock"
    /\ mutex_' = [mutex_ EXCEPT ![MIdx(key[t])] = NoThread]
    /\ pc' = [pc EXCEPT ![t] = "ins_rd_size"]
    /\ UNCHANGED <<table_, size_, buckets_, phase, args, i, copies, ret,
                   opsLeft, ghost, nprefill, ctor_args>>

\* Line 86: size_t size_copy = size_
InsertReadSize(t) ==
    /\ pc[t] = "ins_rd_size"
    /\ size_copy' = [size_copy EXCEPT ![t] = size_]
    /\ pc' = [pc EXCEPT ![t] = "ins_rd_buckets"]
    /\ UNCHANGED <<shared, phase, args, i, buckets_copy, ret, opsLeft, ghost,
                   nprefill, ctor_args>>

\* Lines 87-91: buckets_copy = buckets_, then Rehash() or return true.
InsertReadBuckets(t) ==
    /\ pc[t] = "ins_rd_buckets"
    /\ IF Breach(size_copy[t], buckets_)
       THEN /\ buckets_copy' = [buckets_copy EXCEPT ![t] = buckets_]
            /\ pc' = [pc EXCEPT ![t] = "rh_lock"]
            /\ UNCHANGED <<args, i, size_copy, ret, expect, chk, hist>>
       ELSE /\ hist' = [hist EXCEPT ![key[t]].done = @ + 1,
                                    ![key[t]].oks = @ + 1]
            /\ Leave(t)
    /\ UNCHANGED <<shared, phase, opsLeft, ref, nprefill, ctor_args>>

(* ---- Rehash, called by Insert after it released its stripe ---- *)

\* Faulty variant: Rehash takes the stripes from the last to the first.
RehashLockDescending(t) ==
    /\ pc[t] = "rh_lock"
    /\ mutex_[NumMutex - 1 - i[t]] = NoThread
    /\ mutex_' = [mutex_ EXCEPT ![NumMutex - 1 - i[t]] = t]
    /\ IF i[t] + 1 = NumMutex
       THEN /\ pc' = [pc EXCEPT ![t] = "rh_body"]
            /\ i' = [i EXCEPT ![t] = 0]
       ELSE /\ pc' = pc
            /\ i' = [i EXCEPT ![t] = @ + 1]
    /\ UNCHANGED <<table_, size_, buckets_, phase, args, copies, ret,
                   opsLeft, ghost, nprefill, ctor_args>>

\* Faulty variant: Rehash takes the first stripe only.
RehashLockFirstOnly(t) ==
    /\ pc[t] = "rh_lock"
    /\ mutex_[0] = NoThread
    /\ mutex_' = [mutex_ EXCEPT ![0] = t]
    /\ pc' = [pc EXCEPT ![t] = "rh_body"]
    /\ UNCHANGED <<table_, size_, buckets_, phase, args, i, copies, ret,
                   opsLeft, ghost, nprefill, ctor_args>>

\* Lines 14-16.
RehashLock(t) ==
    /\ LockNext(t, "rh_lock", "rh_body")
    /\ UNCHANGED <<table_, size_, buckets_, phase, args, copies, ret,
                   opsLeft, ghost, nprefill, ctor_args>>

\* Faulty variant: when the breach is gone Rehash returns at once, the
\* stripes still locked.
RehashBodyEarlyReturn(t) ==
    /\ pc[t] = "rh_body"
    /\ IF RehashNeeded(size_, buckets_)
       THEN LET new_bucket_cnt == NewBucketCnt(size_, NumMutex)
            IN /\ table_' = Redistribute(table_, TableLen, new_bucket_cnt)
               /\ pc' = [pc EXCEPT ![t] = "rh_buckets"]
       ELSE /\ table_' = table_
            /\ pc' = [pc EXCEPT ![t] = "idle"]
    /\ UNCHANGED <<mutex_, size_, buckets_, phase, args, i, copies, ret,
                   opsLeft, ghost, nprefill, ctor_args>>

\* Lines 17-32, with every stripe held: the re-validation and, when the
\* breach is still there, the new table moved into table_.
RehashBody(t) ==
    /\ pc[t] = "rh_body"
    /\ IF RehashNeeded(size_, buckets_)
       THEN LET new_bucket_cnt == NewBucketCnt(size_, NumMutex)
            IN /\ table_' = Redistribute(table_, TableLen, new_bucket_cnt)
               /\ pc' = [pc EXCEPT ![t] = "rh_buckets"]
       ELSE /\ table_' = table_
            /\ pc' = [pc EXCEPT ![t] = "rh_unlock"]
    /\ UNCHANGED <<mutex_, size_, buckets_, phase, args, i, copies, ret,
                   opsLeft, ghost, nprefill, ctor_args>>

\* Line 33: buckets_ = new_bucket_cnt, the length of the table just moved
\* in.
RehashBuckets(t) ==
    /\ pc[t] = "rh_buckets"
    /\ buckets_' = TableLen
    /\ pc' = [pc EXCEPT ![t] = "rh_unlock"]
    /\ UNCHANGED <<table_, mutex_, size_, phase, args, i, copies, ret,
                   opsLeft, ghost, nprefill, ctor_args>>

\* Lines 35-37, then Insert's return true.
RehashUnlock(t) ==
    /\ pc[t] = "rh_unlock"
    /\ mutex_' = [mutex_ EXCEPT ![i[t]] = NoThread]
    /\ IF i[t] + 1 = NumMutex
       THEN /\ hist' = [hist EXCEPT ![key[t]].done = @ + 1,
                                    ![key[t]].oks = @ + 1]
            /\ Leave(t)
       ELSE /\ i' = [i EXCEPT ![t] = @ + 1]
            /\ UNCHANGED <<pc, args, copies, ret, expect, chk, hist>>
    /\ UNCHANGED <<table_, size_, buckets_, phase, opsLeft, ref, nprefill,
                   ctor_args>>

(* ---- Erase ---- *)

EraseCall(t, k) ==
    /\ Enter(t, "Erase", k, NoVal, "er_lock")
    /\ hist' = [hist EXCEPT ![k].rm = TRUE]
    /\ UNCHANGED <<shared, phase, copies, ret, ref, expect, chk, nprefill,
                   ctor_args>>

EraseLock(t) ==
    /\ LockGuard(t, "er_lock", "er_cs")
    /\ UNCHANGED <<table_, size_, buckets_, phase, args, i, copies, ret,
                   opsLeft, ghost, nprefill, ctor_args>>

\* Faulty variant: size_-- follows the scan even when the key is not there.
EraseScanAlwaysDec(t) ==
    /\ pc[t] = "er_cs"
    /\ IF buckets_ = 0
       THEN /\ pc' = [pc EXCEPT ![t] = "ub"]
            /\ UNCHANGED <<table_, ret, ref, expect>>
       ELSE LET idx == Idx(key[t])
                el_idx == Position(table_[idx], key[t], 1) - 1
                found == el_idx # Len(table_[idx])
            IN /\ expect' = [expect EXCEPT ![t] = RefErase(key[t])]
               /\ ret' = [ret EXCEPT ![t] = RetBool(found)]
               /\ ref' = [ref EXCEPT ![key[t]] = NoVal]
               /\ table_' = IF found
                            THEN [table_ EXCEPT ![idx] =
                                     RemoveAt(@, el_idx + 1)]
                            ELSE table_
               /\ pc' = [pc EXCEPT ![t] = "er_dec"]
    /\ UNCHANGED <<mutex_, size_, buckets_, phase, args, i, copies, opsLeft,
                   hist, chk, nprefill, ctor_args>>

\* Lines 98-109: the scan, and the erase when the key is there.
EraseScan(t) ==
    /\ pc[t] = "er_cs"
    /\ IF buckets_ = 0
       THEN /\ pc' = [pc EXCEPT ![t] = "ub"]
            /\ UNCHANGED <<table_, ret, ref, expect>>
       ELSE LET idx == Idx(key[t])
                el_idx == Position(table_[idx], key[t], 1) - 1
                found == el_idx # Len(table_[idx])
            IN /\ expect' = [expect EXCEPT ![t] = RefErase(key[t])]
               /\ ret' = [ret EXCEPT ![t] = RetBool(found)]
               /\ ref' = [ref EXCEPT ![key[t]] = NoVal]
               /\ IF found
                  THEN /\ table_' = [table_ EXCEPT ![idx] =
                                        RemoveAt(@, el_idx + 1)]
                       /\ pc' = [pc EXCEPT ![t] = "er_dec"]
                  ELSE /\ pc' = [pc EXCEPT ![t] = "er_ret"]
                       /\ UNCHANGED table_
    /\ UNCHANGED <<mutex_, size_, buckets_, phase, args, i, copies, opsLeft,
                   hist, chk, nprefill, ctor_args>>

\* Line 110: size_--
EraseDec(t) ==
    /\ pc[t] = "er_dec"
    /\ size_' = size_ - 1
    /\ pc' = [pc EXCEPT ![t] = "er_ret"]
    /\ UNCHANGED <<table_, mutex_, buckets_, phase, args, i, copies, ret,
                   opsLeft, ghost, nprefill, ctor_args>>

\* Lines 107 and 111: the return; the guard releases the stripe.
EraseReturn(t) ==
    /\ pc[t] = "er_ret"
    /\ mutex_' = [mutex_ EXCEPT ![MIdx(key[t])] = NoThread]
    /\ hist' = [hist EXCEPT ![key[t]].erased = (@ \/ ret[t].ok)]
    /\ Leave(t)
    /\ UNCHANGED <<table_, size_, buckets_, phase, opsLeft, ref, nprefill,
                   ctor_args>>

(* ---- Find ---- *)

FindCall(t, k) ==
    /\ Enter(t, "Find", k, NoVal, "fd_lock")
    /\ chk' = [chk EXCEPT ![t] = hist[k].erased]
    /\ UNCHANGED <<shared, phase, copies, ret, ref, expect, hist, nprefill,
                   ctor_args>>

FindLock(t) ==
    /\ LockGuard(t, "fd_lock", "fd_cs")
    /\ UNCHANGED <<table_, size_, buckets_, phase, args, i, copies, ret,
                   opsLeft, ghost, nprefill, ctor_args>>

\* Lines 131-137.
FindScan(t) ==
    /\ pc[t] = "fd_cs"
    /\ IF buckets_ = 0
       THEN /\ pc' = [pc EXCEPT ![t] = "ub"]
            /\ UNCHANGED <<ret, expect, chk>>
       ELSE /\ ret' = [ret EXCEPT ![t] =
                          RetFind(ScanChain(table_[Idx(key[t])], key[t]))]
            /\ expect' = [expect EXCEPT ![t] = RefFind(key[t])]
            /\ chk' = [chk EXCEPT ![t] = (@ /\ hist[key[t]].erased)]
            /\ pc' = [pc EXCEPT ![t] = "fd_ret"]
    /\ UNCHANGED <<shared, phase, args, i, copies, opsLeft, ref, hist,
                   nprefill, ctor_args>>

FindReturn(t) ==
    /\ pc[t] = "fd_ret"
    /\ mutex_' = [mutex_ EXCEPT ![MIdx(key[t])] = NoThread]
    /\ Leave(t)
    /\ UNCHANGED <<table_, size_, buckets_, phase, opsLeft, ref, hist,
                   nprefill, ctor_args>>

(* ---- At ---- *)

AtCall(t, k) ==
    /\ Enter(t, "At", k, NoVal, "at_lock")
    /\ UNCHANGED <<shared, phase, copies, ret, ghost, nprefill, ctor_args>>

AtLock(t) ==
    /\ LockGuard(t, "at_lock", "at_cs")
    /\ UNCHANGED <<table_, size_, buckets_, phase, args, i, copies, ret,
                   opsLeft, ghost, nprefill, ctor_args>>

\* Lines 144-150.
AtScan(t) ==
    /\ pc[t] = "at_cs"
    /\ IF buckets_ = 0
       THEN /\ pc' = [pc EXCEPT ![t] = "ub"]
            /\ UNCHANGED <<ret, expect>>
       ELSE /\ ret' = [ret EXCEPT ![t] =
                          RetAt(ScanChain(table_[Idx(key[t])], key[t]))]
            /\ expect' = [expect EXCEPT ![t] = RefAt(key[t])]
            /\ pc' = [pc EXCEPT ![t] = "at_ret"]
    /\ UNCHANGED <<shared, phase, args, i, copies, opsLeft, ref, hist, chk,
                   nprefill, ctor_args>>

\* Faulty variant: the throw leaves the stripe locked.
AtReturnLeak(t) ==
    /\ pc[t] = "at_ret"
    /\ mutex_' = IF ret[t].thrown
                 THEN mutex_
                 ELSE [mutex_ EXCEPT ![MIdx(key[t])] = NoThread]
    /\ Leave(t)
    /\ UNCHANGED <<table_, size_, buckets_, phase, opsLeft, ref, hist,
                   nprefill, ctor_args>>

\* The return or the throw: either way the guard releases the stripe.
AtReturn(t) ==
    /\ pc[t] = "at_ret"
    /\ mutex_' = [mutex_ EXCEPT ![MIdx(key[t])] = NoThread]
    /\ Leave(t)
    /\ UNCHANGED <<table_, size_, buckets_, phase, opsLeft, ref, hist,
                   nprefill, ctor_args>>

(* ---- Clear ---- *)

ClearCall(t) ==
    /\ Enter(t, "Clear", 0, NoVal, "cl_lock")
    /\ hist' = [k \in Keys |-> [hist[k] EXCEPT !.rm = TRUE]]
    /\ UNCHANGED <<shared, phase, copies, ret, ref, expect, chk, nprefill,
                   ctor_args>>

\* Faulty variant: Clear takes the first stripe only.
ClearLockFirstOnly(t) ==
    /\ pc[t] = "cl_lock"
    /\ mutex_[0] = NoThread
    /\ mutex_' = [mutex_ EXCEPT ![0] = t]
    /\ pc' = [pc EXCEPT ![t] = "cl_bucket"]
    /\ ref' = [k \in AllKeys |-> NoVal]
    /\ UNCHANGED <<table_, size_, buckets_, phase, args, i, copies, ret,
                   opsLeft, expect, hist, chk, nprefill, ctor_args>>

\* Lines 115-117.  The reference map is cleared once every stripe is held.
ClearLock(t) ==
    /\ LockNext(t, "cl_lock", IF TableLen = 0 THEN "cl_size" ELSE "cl_bucket")
    /\ ref' = IF i[t] + 1 = NumMutex
              THEN [k \in AllKeys |-> NoVal]
              ELSE ref
    /\ UNCHANGED <<table_, size_, buckets_, phase, args, copies, ret,
                   opsLeft, expect, hist, chk, nprefill, ctor_args>>

\* One turn of lines 118-120: vec.clear()
ClearBucket(t) ==
    /\ pc[t] = "cl_bucket"
    /\ table_' = [table_ EXCEPT ![i[t]] = <<>>]
    /\ IF i[t] + 1 = TableLen
       THEN /\ pc' = [pc EXCEPT ![t] = "cl_size"]
            /\ i' = [i EXCEPT ![t] = 0]
       ELSE /\ pc' = pc
            /\ i' = [i EXCEPT ![t] = @ + 1]
    /\ UNCHANGED <<mutex_, size_, buckets_, phase, args, copies, ret,
                   opsLeft, ghost, nprefill, ctor_args>>

\* Faulty variant: size_ is not reset.
ClearSizeForgotten(t) ==
    /\ pc[t] = "cl_size"
    /\ pc' = [pc EXCEPT ![t] = "cl_unlock"]
    /\ UNCHANGED <<table_, mutex_, size_, buckets_, phase, args, i, copies,
                   ret, opsLeft, ghost, nprefill, ctor_args>>

\* Line 121: size_ = 0
ClearSize(t) ==
    /\ pc[t] = "cl_size"
    /\ size_' = 0
    /\ pc' = [pc EXCEPT ![t] = "cl_unlock"]
    /\ UNCHANGED <<table_, mutex_, buckets_, phase, args, i, copies, ret,
                   opsLeft, ghost, nprefill, ctor_args>>

\* Lines 122-124, then the return.
ClearUnlock(t) ==
    /\ pc[t] = "cl_unlock"
    /\ mutex_' = [mutex_ EXCEPT ![i[t]] = NoThread]
    /\ IF i[t] + 1 = NumMutex
       THEN Leave(t)
       ELSE /\ i' = [i EXCEPT ![t] = @ + 1]
            /\ UNCHANGED <<pc, args, copies, ret, expect, chk>>
    /\ UNCHANGED <<table_, size_, buckets_, phase, opsLeft, ref, hist,
                   nprefill, ctor_args>>

(* ---- the program ---- *)

ThreadStep(t) ==
    \/ \E k \in Keys, v \in Values: InsertCall(t, k, v)
    \/ InsertLock(t)
    \/ InsertScan(t)
    \/ InsertReturnFalse(t)
    \/ InsertInc(t)
    \/ InsertUnlock(t)
    \/ InsertReadSize(t)
    \/ InsertReadBuckets(t)
    \/ RehashLock(t)
    \/ RehashBody(t)
    \/ RehashBuckets(t)
    \/ RehashUnlock(t)
    \/ \E k \in Keys: EraseCall(t, k)
    \/ EraseLock(t)
    \/ EraseScan(t)
    \/ EraseDec(t)
    \/ EraseReturn(t)
    \/ \E k \in Keys: FindCall(t, k)
    \/ FindLock(t)
    \/ FindScan(t)
    \/ FindReturn(t)
    \/ \E k \in Keys: AtCall(t, k)
    \/ AtLock(t)
    \/ AtScan(t)
    \/ AtReturn(t)
    \/ ClearCall(t)
    \/ ClearLock(t)
    \/ ClearBucket(t)
    \/ ClearSize(t)
    \/ ClearUnlock(t)

MainStep == MainInsert \/ Spawn

Next ==
    \/ MainStep
    \/ \E t \in Threads: ThreadStep(t)

Spec == Init /\ [][Next]_vars

\* Every constructor call with a size hint that is unknown, small, or so
\* large that line 57 overflows, and one thread using the container.
ExpectedSizes ==
    {kUndefinedSize} \cup (0..MaxExpected) \cup {IntMax - 1, IntMax}
ThreadHints == 0..MaxThreadHint

CtorInit ==
    \E es \in ExpectedSizes, th \in ThreadHints:
        InitWith(es, th, [t \in Threads |-> IF t = 1 THEN MaxOps ELSE 0])

CtorSpec == CtorInit /\ [][Next]_vars

\* The scheduler lets every thread that can take a step take one.
Fairness ==
    /\ WF_vars(MainStep)
    /\ \A t \in Threads: WF_vars(ThreadStep(t))

\* The first worker makes MaxOps calls, the others one call less.
LiveInit ==
    InitWith(kUndefinedSize, kDefaultConcurrencyLevel,
             [t \in Threads |-> IF t = 1 THEN MaxOps ELSE MaxOps - 1])

LiveSpec == LiveInit /\ [][Next]_vars /\ Fairness

(* ---- what the claims speak of ---- *)

Quiescent == phase = "run" /\ \A t \in Threads: pc[t] = "idle"
AllDone == Quiescent /\ \A t \in Threads: opsLeft[t] = 0

\* What Find(k) returns when it runs alone in this state.
FindResult(k) == ScanChain(table_[Idx(k)], k)

\* A Rehash has moved the new table in and not yet stored its length in
\* buckets_ (between lines 32 and 33); it holds every stripe.
Swapping == \E t \in Threads: pc[t] = "rh_buckets"

TotalEntries == Len(Flatten(table_, 0, TableLen))

Entries(tbl) ==
    UNION {{tbl[b][p] : p \in 1..Len(tbl[b])} : b \in DOMAIN tbl}

NoLockHeld == \A m \in DOMAIN mutex_: mutex_[m] = NoThread
Holds(t, m) == mutex_[m] = t
HoldsAll(t) == \A m \in DOMAIN mutex_: mutex_[m] = t

\* The steps a single-key method takes with its stripe held.
CriticalPcs ==
    {"ins_cs", "ins_inc", "ins_unlock", "ins_ret_false", "er_cs", "er_dec",
     "er_ret", "fd_cs", "fd_ret", "at_cs", "at_ret"}
\* The steps at which ret holds the result computed under the lock.
ResultPcs ==
    {"ins_inc", "ins_unlock", "ins_ret_false", "ins_rd_size",
     "ins_rd_buckets", "rh_lock", "rh_body", "rh_buckets", "rh_unlock",
     "er_dec", "er_ret", "fd_ret", "at_ret"}
Grown == buckets_ > NumMutex

(* ---- C1 ---- *)

NoRemoval == \A k \in Keys: ~hist[k].rm
EachKeyOnce == \A k \in Keys: hist[k].calls <= 1
Inserted == PrefillKeys(nprefill) \cup {k \in Keys: hist[k].calls >= 1}
InsertedValue(k) == IF k \in Keys THEN hist[k].first ELSE 1

\* C1: when distinct keys were inserted, each exactly once, by the main
\* thread and the workers, and nothing was erased or cleared, then once
\* every call has returned size_ is the number of keys and Find(k) returns
\* (true, the value inserted for k) for each of them, growth or not.
C1_DistinctInserts ==
    (Quiescent /\ NoRemoval /\ EachKeyOnce) =>
        /\ size_ = Cardinality(Inserted)
        /\ \A k \in Inserted: FindResult(k) = <<TRUE, InsertedValue(k)>>

C1_Witness ==
    /\ Quiescent /\ NoRemoval /\ EachKeyOnce /\ Grown
    /\ \A t \in Threads: opsLeft[t] = MaxOps - 1
    /\ Inserted = AllKeys

(* ---- C2 ---- *)

\* C2: for a key that no Erase and no Clear was called on, at most one
\* Insert returns true; once two or more Inserts of it were called and all
\* have returned exactly one returned true, the others false, and the value
\* stored is that of the Insert that locked the key's stripe first; a step
\* that finds the key present leaves the table and size_ as they are.
C2_Inv ==
    \A k \in Keys:
        ~hist[k].rm =>
            /\ hist[k].oks <= 1
            /\ (hist[k].calls >= 2 /\ hist[k].done = hist[k].calls) =>
                   /\ hist[k].oks = 1
                   /\ ~Swapping => FindResult(k) = <<TRUE, hist[k].first>>

C2_LoserFrame ==
    \A t \in Threads:
        (pc[t] = "ins_cs" /\ pc'[t] = "ins_ret_false") =>
            (table_' = table_ /\ size_' = size_ /\ ~ret'[t].ok)

\* C2: first writer wins: C2_Inv in every state, C2_LoserFrame at every step.
C2_FirstWriterWins == []C2_Inv /\ [][C2_LoserFrame]_vars

C2_Witness ==
    \E k \in Keys:
        /\ nprefill = 0 /\ ~hist[k].rm
        /\ hist[k].calls = 2 /\ hist[k].done = 2
        /\ hist[k].first = MaxValue
        /\ FindResult(k) = <<TRUE, MaxValue>>
        /\ \A t \in Threads: opsLeft[t] = MaxOps - 1

(* ---- C3 ---- *)

\* C3: under weak fairness of every thread, every call returns and every
\* thread finishes its calls: no state in which some thread waits for ever.
C3_Termination == <>AllDone

C3_Witness ==
    /\ AllDone /\ Grown
    /\ \A k \in Keys: hist[k].rm

(* ---- C4 ---- *)

Clearing(t) == pc[t] \in {"cl_bucket", "cl_size"}

\* C4: while a Clear holds every stripe and has not yet reset size_ (it is
\* emptying the buckets), no other thread is in the critical section of a
\* single-key method or inside Rehash's or Clear's body.
C4_ClearAtomic ==
    \A t \in Threads:
        Clearing(t) =>
            /\ HoldsAll(t)
            /\ \A u \in Threads \ {t}:
                   pc[u] \notin (CriticalPcs \cup
                                 {"rh_body", "rh_buckets", "cl_bucket",
                                  "cl_size"})

C4_Witness ==
    \E t \in Threads, u \in Threads:
        /\ pc[t] = "cl_bucket" /\ i[t] > 1
        /\ table_[i[t]] # <<>>
        /\ pc[u] \in {"ins_lock", "er_lock", "fd_lock", "at_lock"}
        /\ MIdx(key[u]) < i[t]

(* ---- C5 ---- *)

\* C5: a step that replaces the table by one of another length keeps the
\* set and the number of stored (key, value) entries, each in the bucket
\* where Find looks for it once buckets_ is the new length; the step that
\* changes buckets_ sets it to that length and leaves the table alone.
C5_GrowthStep ==
    LET new_cnt == Cardinality(DOMAIN table_')
    IN /\ DOMAIN table_' # DOMAIN table_ =>
           /\ Entries(table_') = Entries(table_)
           /\ Len(Flatten(table_', 0, new_cnt)) = TotalEntries
           /\ \A e \in Entries(table_):
                  ScanChain(table_'[Hash(e[1]) % new_cnt], e[1])
                      = <<TRUE, e[2]>>
       /\ buckets_' # buckets_ => (buckets_' = new_cnt /\ table_' = table_)

\* C5: growth preserves the data: C5_GrowthStep at every step.
C5_GrowthPreserves == [][C5_GrowthStep]_vars

C5_Witness ==
    \E t \in Threads:
        /\ pc[t] = "rh_unlock" /\ Grown
        /\ \E e \in Entries(table_): e[2] = MaxValue

(* ---- C6 ---- *)

AbstractMap == [k \in AllKeys |-> LET r == FindResult(k) IN
                                   IF r[1] THEN r[2] ELSE NoVal]

\* C6: every result computed under the lock is the reference map's result
\* at that moment, and whenever no Clear is emptying the buckets and no
\* Rehash is between its two stores the table holds exactly the reference
\* map.
C6_Linearizable ==
    /\ \A t \in Threads: pc[t] \in ResultPcs => ret[t] = expect[t]
    /\ (phase = "run" /\ buckets_ > 0 /\ ~Swapping
           /\ \A t \in Threads: pc[t] # "cl_bucket")
          => (AbstractMap = ref /\
              Cardinality(Entries(table_)) = TotalEntries)

C6_Witness ==
    \E t \in Threads, u \in Threads:
        /\ pc[t] = "at_ret" /\ ret[t].thrown
        /\ pc[u] = "rh_lock" /\ ret[u].ok
        /\ hist[key[t]].erased

(* ---- C7 ---- *)

Absent(k) ==
    \A b \in DOMAIN table_: Position(table_[b], k, 1) > Len(table_[b])

\* C7: a Find(k) called after an Erase(k) returned true, and scanning while
\* no Insert(k) has added the key since, returns empty; an Erase of a key
\* that is in no bucket returns false and leaves the table and size_ alone.
C7_FindAfterErase ==
    \A t \in Threads: (pc[t] = "fd_ret" /\ chk[t]) => ~ret[t].ok

C7_AbsentErase ==
    \A t \in Threads:
        (pc[t] = "er_cs" /\ pc'[t] # "er_cs" /\ buckets_ > 0
            /\ Absent(key[t])) =>
            /\ pc'[t] = "er_ret" /\ ~ret'[t].ok
            /\ table_' = table_ /\ size_' = size_

\* C7: erase/find consistency: C7_FindAfterErase in every state,
\* C7_AbsentErase at every step.
C7_EraseThenFind == []C7_FindAfterErase /\ [][C7_AbsentErase]_vars

C7_Witness ==
    \E t \in Threads:
        /\ pc[t] = "fd_ret" /\ chk[t] /\ Grown
        /\ hist[key[t]].calls >= 1

(* ---- C8 ---- *)

\* C8: whenever no stripe is held, size_ is the number of stored entries.
C8_SizeIsEntries == (phase = "run" /\ NoLockHeld) => size_ = TotalEntries

C8_Witness ==
    /\ NoLockHeld /\ size_ > PrefillFull
    /\ \E t \in Threads: pc[t] = "ins_rd_size"
    /\ \E t \in Threads: pc[t] = "er_lock"

(* ---- C9 ---- *)

\* C9: buckets_ is a positive multiple of mutex_.size() after every
\* construction with a size hint that is unknown or >= 0, and from then on.
C9_PositiveMultiple ==
    phase # "ub" => (buckets_ > 0 /\ buckets_ % NumMutex = 0)

(* ---- C10 ---- *)

\* C10: no step lowers buckets_ or changes mutex_.size(); only Rehash's
\* store at line 33, run by an Insert, changes buckets_, and it raises it.
C10_Step ==
    /\ buckets_' >= buckets_
    /\ DOMAIN mutex_' = DOMAIN mutex_
    /\ (buckets_' # buckets_ /\ phase = "run") =>
           \E t \in Threads:
               op[t] = "Insert" /\ pc[t] = "rh_buckets"
               /\ pc'[t] = "rh_unlock"

\* C10: buckets_ never decreases, mutex_.size() never changes: C10_Step at
\* every step.
C10_Monotone == [][C10_Step]_vars

C10_Witness ==
    /\ Grown
    /\ \E t \in Threads: op[t] = "Clear" /\ pc[t] = "cl_unlock"

(* ---- C11 ---- *)

CeilDiv(a, b) == (a \div b) + (IF a % b = 0 THEN 0 ELSE 1)

JustConstructed == phase = "ub" \/ (phase = "ctor" /\ nprefill = 0)

\* C11: the constructor called with (expected_size, expected_threads_count)
\* yields max(8, expected_threads_count) stripes and, for an unknown
\* expected_size, as many buckets; for every expected_size from 0 to the
\* largest int it yields the smallest multiple of the stripe count that is
\* at least ceil(expected_size / 3) buckets.
C11_Construction ==
    JustConstructed =>
        LET expected_size == ctor_args[1]
            partitions == Max(8, ctor_args[2])
        IN /\ phase = "ctor"
           /\ NumMutex = partitions
           /\ TableLen = buckets_
           /\ buckets_ =
                  IF expected_size = kUndefinedSize
                  THEN partitions
                  ELSE partitions *
                       CeilDiv(CeilDiv(expected_size, kLoadFactor), partitions)

(* ---- C12 ---- *)

HeldBy(t) == {m \in DOMAIN mutex_: mutex_[m] = t}
IdleHoldsNothing == \A t \in Threads: pc[t] = "idle" => HeldBy(t) = {}

C12_AtResult ==
    \A t \in Threads:
        pc[t] = "at_ret" =>
            /\ ret[t].thrown <=> Absent(key[t])
            /\ ~ret[t].thrown =>
                   (ret[t].ok /\ <<key[t], ret[t].val>> \in Entries(table_))

C12_AtFrame ==
    \A t \in Threads:
        (op[t] = "At" /\ pc'[t] # pc[t]) =>
            /\ table_' = table_ /\ size_' = size_ /\ buckets_' = buckets_
            /\ pc'[t] = "idle" =>
                   (mutex_'[MIdx(key[t])] = NoThread /\ HeldBy(t)' = {})

\* C12: At(k) of an absent key throws and At(k) of a present key returns the
\* stored value; no step of At changes the table, size_ or buckets_; when
\* At returns or throws the key's stripe is unlocked, and a thread that is
\* in no call holds no stripe.
C12_AtNotFound ==
    [](C12_AtResult /\ IdleHoldsNothing) /\ [][C12_AtFrame]_vars

C12_Witness ==
    \E t \in Threads, u \in Threads:
        /\ pc[t] = "at_ret" /\ ret[t].thrown
        /\ pc[u] = "cl_lock" /\ i[u] = MIdx(key[t])

(* ---- C13 ---- *)

GrowthHoldsAll == \E t \in Threads: op[t] = "Insert" /\ HoldsAll(t)

\* C13: in every state in which no growth holds all the stripes, no key is
\* stored twice in the whole table and every entry with key k is in bucket
\* hash(k) % buckets_.
C13_Placement ==
    ~GrowthHoldsAll =>
        /\ Cardinality({e[1] : e \in Entries(table_)}) = TotalEntries
        /\ \A b \in DOMAIN table_: \A p \in 1..Len(table_[b]):
               Hash(table_[b][p][1]) % buckets_ = b

C13_Witness ==
    /\ Grown /\ ~GrowthHoldsAll
    /\ TotalEntries > PrefillFull
    /\ \E t \in Threads: pc[t] = "rh_unlock" /\ i[t] > 0

(* ---- C14 ---- *)

\* C14: whenever every call has returned, size_ <= 3 * buckets_, whatever
\* the interleaving of the calls and of Insert's two unlocked reads.
C14_LoadBound == Quiescent => size_ <= 3 * buckets_

C14_Witness ==
    /\ Quiescent /\ Grown
    /\ size_ > kLoadFactor * NumMutex
    /\ \E k \in Keys: hist[k].erased

(* ---- C15 ---- *)

C15_NoOpFrame ==
    \A t \in Threads:
        (pc[t] = "rh_body" /\ pc'[t] # "rh_body"
            /\ CeilDiv(size_, buckets_) <= 3) =>
            /\ table_' = table_ /\ buckets_' = buckets_ /\ size_' = size_
            /\ pc'[t] = "rh_unlock"

C15_ResizeSettles == buckets_' # buckets_ => CeilDiv(size_', buckets_') <= 3

\* C15: a Rehash that holds every stripe and finds ceil(size_ / buckets_)
\* <= 3 leaves the table, buckets_ and size_ as they are and goes on to
\* unlock; a Rehash that resizes leaves no breach behind, so a second Rehash
\* for the same breach resizes nothing; a thread back from Rehash holds no
\* stripe.
C15_Idempotent ==
    []IdleHoldsNothing /\ [][C15_NoOpFrame /\ C15_ResizeSettles]_vars

C15_Witness ==
    /\ NoRemoval /\ Grown
    /\ nprefill = PrefillFull /\ size_ = PrefillFull + 2
    /\ \A t \in Threads: opsLeft[t] >= MaxOps - 1
    /\ \E t \in Threads, u \in Threads:
           /\ pc[t] = "rh_unlock" /\ HoldsAll(t)
           /\ pc[u] = "idle" /\ opsLeft[u] = MaxOps - 1

(* ---- C16 ---- *)

\* The steps at which a single-key method reads or changes its bucket.
BucketPcs == {"ins_cs", "er_cs", "fd_cs", "at_cs"}

\* C16: a thread about to read or change bucket b in a single-key method
\* holds stripe b % mutex_.size(), which is the stripe it chose from the
\* hash, and b is an index of the table; no two threads are at the same
\* bucket.
C16_BucketUnderLock ==
    /\ \A t \in Threads:
           pc[t] \in BucketPcs =>
               LET b == Idx(key[t])
               IN /\ b < TableLen
                  /\ mutex_[b % NumMutex] = t
                  /\ b % NumMutex = MIdx(key[t])
    /\ \A t \in Threads, u \in Threads:
           (t # u /\ pc[t] \in BucketPcs /\ pc[u] \in BucketPcs) =>
               Idx(key[t]) # Idx(key[u])

C16_Witness ==
    \E t \in Threads, u \in Threads:
        /\ Grown /\ t # u
        /\ pc[t] \in BucketPcs /\ pc[u] \in BucketPcs
        /\ Idx(key[t]) >= NumMutex

(* ---- C17 ---- *)

C17_SwapStep ==
    (phase = "run" /\ (DOMAIN table_' # DOMAIN table_ \/ buckets_' # buckets_))
        => \E t \in Threads:
               /\ op[t] = "Insert" /\ pc[t] \in {"rh_body", "rh_buckets"}
               /\ HoldsAll(t)
               /\ mutex_' = mutex_

C17_Consistent ==
    \A t \in Threads: pc[t] \in CriticalPcs => buckets_ = TableLen

\* C17: the table is replaced and buckets_ is changed only by a Rehash that
\* holds every stripe, and a single-key method inside its critical section
\* sees buckets_ equal to the length of the table.
C17_SwapUnderLocks == []C17_Consistent /\ [][C17_SwapStep]_vars

C17_Witness ==
    \E t \in Threads, u \in Threads:
        /\ pc[t] = "rh_buckets" /\ buckets_ # TableLen
        /\ pc[u] \in {"ins_lock", "er_lock", "fd_lock", "at_lock"}

(* ---- C18 ---- *)

SingleLockPcs == {"ins_lock", "er_lock", "fd_lock", "at_lock"}
AllLockPcs == {"rh_lock", "cl_lock"}

\* The stripe a thread is waiting for.
Requested(t) == IF pc[t] \in AllLockPcs THEN i[t] ELSE MIdx(key[t])

\* C18: a thread of Clear or Rehash waiting for stripe i holds exactly the
\* stripes 0..i-1; a single-key method waiting for its stripe holds none;
\* an Insert past its critical section holds none until Rehash locks; no
\* thread waits for a stripe below one it holds.
C18_LockOrder ==
    \A t \in Threads:
        /\ pc[t] \in AllLockPcs => HeldBy(t) = 0..(i[t] - 1)
        /\ pc[t] \in SingleLockPcs => HeldBy(t) = {}
        /\ pc[t] \in {"ins_rd_size", "ins_rd_buckets"} => HeldBy(t) = {}
        /\ pc[t] \in (AllLockPcs \cup SingleLockPcs) =>
               \A m \in HeldBy(t): m < Requested(t)

C18_Witness ==
    \E t \in Threads, u \in Threads:
        /\ pc[t] = "cl_lock" /\ i[t] > 1
        /\ pc[u] = "rh_lock" /\ i[u] = 0

(* ---- C19 ---- *)

\* Constructions with a size hint at, just below and just above the number
\* of entries the default table holds without growing, and two workers.
SizedHints == (PrefillFull - 1)..(PrefillFull + 1)

SizedInit ==
    \E es \in SizedHints:
        InitWith(es, kDefaultConcurrencyLevel,
                 [t \in Threads |-> IF t = 1 THEN MaxOps ELSE MaxOps - 1])

SizedSpec == SizedInit /\ [][Next]_vars

C19_Step ==
    (ctor_args[1] >= 1 /\ buckets_' # buckets_) => size_ > ctor_args[1]

\* C19: in a container constructed with expected_size E >= 1, buckets_
\* changes only at a step where size_ is above E: as long as size_ has not
\* exceeded E, buckets_ is what the constructor set.
C19_NoEarlyGrowth == [][C19_Step]_vars

C19_Witness ==
    /\ ctor_args[1] = PrefillFull
    /\ Quiescent /\ Grown
    /\ \E k \in Keys: hist[k].erased

(* ---- C20 ---- *)

Pending(at) == Cardinality({t \in Threads: pc[t] = at})

\* C20: size_ is never negative; while no Clear is emptying the buckets it
\* is the number of stored entries, less one for each Insert that has added
\* its entry and not yet counted it, plus one for each Erase that has
\* removed its entry and not yet counted it; while a Clear is emptying the
\* buckets it is at least the number of entries left.
C20_SizeTracks ==
    /\ size_ >= 0
    /\ IF \E t \in Threads: Clearing(t)
       THEN size_ >= TotalEntries
       ELSE size_ = TotalEntries - Pending("ins_inc") + Pending("er_dec")

C20_Witness ==
    /\ Pending("ins_inc") = 1 /\ Pending("er_dec") = 1
    /\ size_ = TotalEntries /\ size_ > 0

====
